---------------------------- MODULE Spec2Model ----------------------------
(***************************************************************************)
(* A model of inferModes.py: the ground-atom parser, the frequency index   *)
(* (sort_keys), the position-set builder (compress_to_sets) and the type   *)
(* clusterer (PredicateLogicTypeInference).                                *)
(*                                                                         *)
(* Python strings that are only compared or concatenated are TLA+ strings; *)
(* the text handed to the parser is a sequence of one-character strings,   *)
(* because the parser looks inside it.  A Python list [a, b, c] whose      *)
(* elements have different types is a record.                              *)
(***************************************************************************)
EXTENDS Integers, Sequences, FiniteSets, TLC

VARIABLES
    pc,                    \* which function is running / how it ended
    \* ---- InferenceUtils.parse
    written,               \* how the input line was written (head, args, spacing)
    text,                  \* predicate_string
    parsed,                \* what parse returned or raised
    \* ---- InferenceUtils.sort_keys, compress_to_sets
    pos, neg, fac,         \* the three lists of ground predicate lists
    predicate_head_index,  \* head symbol -> code
    predicate_body_index,  \* constant symbol -> code
    set_dictionary,        \* str(head code) -> list of sets of str(constant code)
    \* ---- PredicateLogicTypeInference
    untyped_dict,          \* its argument
    untyped,               \* list of [key, object_set, type]
    typed,                 \* list of [key, object_set, type]
    var                    \* the Types counter: [i, n]

vars == <<pc, written, text, parsed, pos, neg, fac, predicate_head_index,
          predicate_body_index, set_dictionary, untyped_dict, untyped, typed, var>>

parseVars == <<written, text, parsed>>
setVars == <<pos, neg, fac, predicate_head_index, predicate_body_index, set_dictionary>>
clusterVars == <<untyped_dict, untyped, typed, var>>

-----------------------------------------------------------------------------
(* Bounds and input alphabets *)

MaxSlots == 3
ConstCodes == {"0", "1", "2"}

MaxAtoms == 3
ConstSymbols == {"a", "b"}
MaxTextLen == 7
MaxArgs == 3
MaxSpaces == 1
\* the characters of [a-zA-Z0-9] that occur in the inputs
Alnum == {"a", "b"}
\* the characters arbitrary input lines are made of
TextChars == {"a", "(", ")", ",", " ", "."}
\* the identifiers well-formed input lines are made of
Identifiers == {<<"a">>, <<"b">>, <<"a", "b">>}
\* the head symbols of the input and the numbers of arguments each is written with
Signature == [f |-> {1, 2}, g |-> {1}]

-----------------------------------------------------------------------------
(* Generic list helpers (Python list semantics) *)

Range(s) == {s[i] : i \in 1..Len(s)}

\* list.remove(x): drops the first element equal to x
RECURSIVE ListRemove(_, _)
ListRemove(s, x) ==
    IF s = <<>> THEN <<>>
    ELSE IF Head(s) = x THEN Tail(s)
    ELSE <<Head(s)>> \o ListRemove(Tail(s), x)

\* the empty dict {}
EmptyDict == <<>>

\* all orders in which the keys of a dict can be iterated
Orders(S) == {o \in [1..Cardinality(S) -> S] : \A i, j \in 1..Cardinality(S) : o[i] = o[j] => i = j}

-----------------------------------------------------------------------------
(* Types and PredicateLogicTypeInference *)

\* Python's None in the type field of an entry
None == -1

\* Types.__init__
TypesInit(n) == [i |-> 0, n |-> n]

\* Types.next with the test  self.i < self.n - 1
TypesNextOffByOne(t) ==
    IF t.i < t.n - 1
    THEN [raised |-> FALSE, value |-> t.i, types |-> [t EXCEPT !.i = t.i + 1]]
    ELSE [raised |-> TRUE, value |-> None, types |-> t]

\* Types.next: the id returned and the counter after it; raises StopIteration
TypesNext(t) ==
    IF t.i < t.n
    THEN [raised |-> FALSE, value |-> t.i, types |-> [t EXCEPT !.i = t.i + 1]]
    ELSE [raised |-> TRUE, value |-> None, types |-> t]

\* [str(key) + '_' + str(i), untyped_dict[key][i], None]
Entry(d, key, i) ==
    [key |-> key \o "_" \o ToString(i), object_set |-> d[key][i + 1], type |-> None]

\* the inner loop: for i in range(len(untyped_dict[key]))
EntriesOfKey(d, key) == [j \in 1..Len(d[key]) |-> Entry(d, key, j - 1)]

\* the outer loop: for key in untyped_dict, keys met in the order `order`
RECURSIVE BuildUntyped(_, _)
BuildUntyped(d, order) ==
    IF order = <<>> THEN <<>>
    ELSE EntriesOfKey(d, Head(order)) \o BuildUntyped(d, Tail(order))

\* c[1].union(unknownType[1]) in place of the intersection
IntersectsUnion(c, unknownType) == (c.object_set \cup unknownType.object_set) # {}

\* c[1].intersection(unknownType[1]) is truthy
Intersects(c, unknownType) == (c.object_set \cap unknownType.object_set) # {}

\* the loop without  untyped.remove(unknownType)
RECURSIVE ForUnknownTypesKeep(_, _, _)
ForUnknownTypesKeep(unknownTypes, c, st) ==
    IF unknownTypes = <<>> THEN st
    ELSE LET unknownType == Head(unknownTypes)
         IN  IF Intersects(c, unknownType)
             THEN ForUnknownTypesKeep(Tail(unknownTypes), c,
                     [untyped |-> st.untyped,
                      typed |-> Append(st.typed, [unknownType EXCEPT !.type = c.type])])
             ELSE ForUnknownTypesKeep(Tail(unknownTypes), c, st)

\* for unknownType in unknownTypes: ... over the deep copy taken before the loop;
\* st = [untyped, typed]
RECURSIVE ForUnknownTypes(_, _, _)
ForUnknownTypes(unknownTypes, c, st) ==
    IF unknownTypes = <<>> THEN st
    ELSE LET unknownType == Head(unknownTypes)
         IN  IF Intersects(c, unknownType)
             THEN ForUnknownTypes(Tail(unknownTypes), c,
                     [untyped |-> ListRemove(st.untyped, unknownType),
                      typed |-> Append(st.typed, [unknownType EXCEPT !.type = c.type])])
             ELSE ForUnknownTypes(Tail(unknownTypes), c, st)

\* one pass of the while body with choice(untyped) = untyped[k] and fresh id `id`
WhileBody(u, t, k, id) ==
    LET c == [u[k] EXCEPT !.type = id]
        u1 == ListRemove(u, u[k])
        t1 == Append(t, c)
    IN  ForUnknownTypes(u1, c, [untyped |-> u1, typed |-> t1])

Flatten ==
    /\ pc = "start"
    /\ \E order \in Orders(DOMAIN untyped_dict) :
          /\ untyped' = BuildUntyped(untyped_dict, order)
          /\ var' = TypesInit(Len(untyped'))
    /\ typed' = <<>>
    /\ pc' = "while"
    /\ UNCHANGED <<untyped_dict, parseVars, setVars>>

Iterate ==
    /\ pc = "while"
    /\ untyped # <<>>
    /\ \E k \in 1..Len(untyped) :
          LET nx == TypesNext(var)
          IN  IF nx.raised
              THEN /\ pc' = "StopIteration"
                   /\ UNCHANGED <<untyped, typed, var>>
              ELSE LET st == WhileBody(untyped, typed, k, nx.value)
                   IN  /\ untyped' = st.untyped
                       /\ typed' = st.typed
                       /\ var' = nx.types
                       /\ pc' = "while"
    /\ UNCHANGED <<untyped_dict, parseVars, setVars>>

Return ==
    /\ pc = "while"
    /\ untyped = <<>>
    /\ pc' = "done"
    /\ UNCHANGED <<clusterVars, parseVars, setVars>>

\* ---- inputs: every set dictionary with at most MaxSlots positions in all
NonEmptySets == (SUBSET ConstCodes) \ {{}}

\* the dictionary whose lists are the consecutive pieces of `flat` cut after the
\* positions in `cuts`
RECURSIVE Pieces(_, _, _)
Pieces(flat, cuts, from) ==
    IF from > Len(flat) THEN <<>>
    ELSE LET to == CHOOSE e \in from..Len(flat) :
                      /\ (e \in cuts \/ e = Len(flat))
                      /\ \A x \in from..(e - 1) : x \notin cuts
         IN  <<SubSeq(flat, from, to)>> \o Pieces(flat, cuts, to + 1)

DictOf(lists) ==
    LET key(k) == ToString(k - 1)
    IN  [s \in {key(k) : k \in 1..Len(lists)} |->
            lists[CHOOSE k \in 1..Len(lists) : key(k) = s]]

SetDictionaries ==
    {DictOf(Pieces(flat, cuts, 1)) :
        flat \in UNION {[1..n -> NonEmptySets] : n \in 0..MaxSlots},
        cuts \in SUBSET (1..(MaxSlots - 1))}

NoParse == [status |-> "none"]

IdleParse ==
    /\ written = NoParse
    /\ text = <<>>
    /\ parsed = NoParse

IdleSets ==
    /\ pos = <<>>
    /\ neg = <<>>
    /\ fac = <<>>
    /\ predicate_head_index = EmptyDict
    /\ predicate_body_index = EmptyDict
    /\ set_dictionary = EmptyDict

IdleCluster ==
    /\ untyped_dict = EmptyDict
    /\ untyped = <<>>
    /\ typed = <<>>
    /\ var = TypesInit(0)

Init ==
    /\ pc = "start"
    /\ untyped_dict \in SetDictionaries
    /\ untyped = <<>>
    /\ typed = <<>>
    /\ var = TypesInit(0)
    /\ IdleParse
    /\ IdleSets

Next == Flatten \/ Iterate \/ Return

Spec == Init /\ [][Next]_vars

FairSpec == Spec /\ WF_vars(Next)

-----------------------------------------------------------------------------
(* InferenceUtils.inspect_instance_syntax and InferenceUtils.parse *)

\* _instance_re as an automaton: the states reached from state q on character ch.
\*   "head"  in the leading [a-zA-Z0-9]*, before \(
\*   "body"  after \( or inside an [a-zA-Z0-9]* between the parentheses
\*   "space" after a comma, inside ( )*
\*   "close" after \)
\*   "accept" after \.
ReStep(q, ch) ==
    CASE q = "head" ->
            IF ch \in Alnum THEN {"head"} ELSE IF ch = "(" THEN {"body"} ELSE {}
      [] q = "body" ->
            IF ch \in Alnum THEN {"body"}
            ELSE IF ch = "," THEN {"space"}
            ELSE IF ch = ")" THEN {"close"} ELSE {}
      [] q = "space" ->
            IF ch = " " THEN {"space"}
            ELSE IF ch \in Alnum THEN {"body"}
            ELSE IF ch = "," THEN {"space"}
            ELSE IF ch = ")" THEN {"close"} ELSE {}
      [] q = "close" -> IF ch = "." THEN {"accept"} ELSE {}
      [] OTHER -> {}

\* _instance_re.search(example): a match may start at any position and need not
\* reach the end of the string
RECURSIVE ReSearchFrom(_, _, _)
ReSearchFrom(example, Q, i) ==
    IF "accept" \in Q THEN TRUE
    ELSE IF i > Len(example) THEN FALSE
    ELSE ReSearchFrom(example,
                      UNION {ReStep(q, example[i]) : q \in Q \cup {"head"}}, i + 1)

\* inspect_instance_syntax returns (TRUE) or raises the exception (FALSE)
inspect_instance_syntax(example) == ReSearchFrom(example, {}, 1)

\* the string left as it is, where parse calls replace(' ', '')
KeepSpaces(s) == s

\* s.replace(' ', '')
RECURSIVE RemoveSpaces(_)
RemoveSpaces(s) ==
    IF s = <<>> THEN <<>>
    ELSE IF Head(s) = " " THEN RemoveSpaces(Tail(s))
    ELSE <<Head(s)>> \o RemoveSpaces(Tail(s))

\* s.split(sep): the pieces of s between the occurrences of sep, at least one
RECURSIVE Split(_, _)
Split(s, sep) ==
    IF \A i \in 1..Len(s) : s[i] # sep THEN <<s>>
    ELSE LET k == CHOOSE i \in 1..Len(s) :
                     s[i] = sep /\ \A j \in 1..(i - 1) : s[j] # sep
         IN  <<SubSeq(s, 1, k - 1)>> \o Split(SubSeq(s, k + 1, Len(s)), sep)

\* s.split(sep, 1)[0]: s up to the first sep
SplitOnceFirst(s, sep) == Split(s, sep)[1]

\* parse: the list [head, [arg, ...], piece, ...] it returns, as a record, or the
\* exception it raises
parse(predicate_string) ==
    IF ~inspect_instance_syntax(predicate_string)
    THEN [status |-> "Exception"]
    ELSE LET predicate_list ==
                 Split(SplitOnceFirst(RemoveSpaces(predicate_string), ")"), "(")
         IN  IF Len(predicate_list) < 2
             THEN [status |-> "IndexError"]
             ELSE [status |-> "ok",
                   head |-> predicate_list[1],
                   args |-> Split(predicate_list[2], ","),
                   rest |-> SubSeq(predicate_list, 3, Len(predicate_list))]

Parse ==
    /\ pc = "start"
    /\ parsed' = parse(text)
    /\ pc' = "parsed"
    /\ UNCHANGED <<written, text, setVars, clusterVars>>

\* ---- inputs: arbitrary lines
Texts == UNION {[1..n -> TextChars] : n \in 0..MaxTextLen}

InitParseAny ==
    /\ pc = "start"
    /\ written = NoParse
    /\ text \in Texts
    /\ parsed = NoParse
    /\ IdleSets
    /\ IdleCluster

\* ---- inputs: lines written after the grammar
\*   identifier '(' identifier (',' identifier)* ')' '.'
\* with before[i] spaces before and after[i] spaces after the i-th comma
Spaces(n) == [i \in 1..n |-> " "]

RECURSIVE WriteArgs(_, _)
WriteArgs(w, i) ==
    IF i > Len(w.args) THEN <<>>
    ELSE (IF i = 1 THEN <<>>
          ELSE Spaces(w.before[i - 1]) \o <<",">> \o Spaces(w.after[i - 1]))
         \o w.args[i] \o WriteArgs(w, i + 1)

Write(w) == w.head \o <<"(">> \o WriteArgs(w, 1) \o <<")", ".">>

Lines ==
    UNION {[status : {"written"},
            head : Identifiers,
            args : [1..n -> Identifiers],
            before : [1..(n - 1) -> 0..MaxSpaces],
            after : [1..(n - 1) -> 0..MaxSpaces]] : n \in 1..MaxArgs}

InitParse ==
    /\ pc = "start"
    /\ written \in Lines
    /\ text = Write(written)
    /\ parsed = NoParse
    /\ IdleSets
    /\ IdleCluster

NextParse == Parse

SpecParseAny == InitParseAny /\ [][NextParse]_vars

SpecParse == InitParse /\ [][NextParse]_vars

-----------------------------------------------------------------------------
(* InferenceUtils.sort_keys and compress_to_sets *)

\* pos + neg + fac
Pooled(p, n, f) == p \o n \o f

\* cnt[sym] += 1 on a Counter
Increment(cnt, sym) ==
    IF sym \in DOMAIN cnt THEN [cnt EXCEPT ![sym] = @ + 1] ELSE cnt @@ (sym :> 1)

\* for i in data[1]: body_cnt[i] += 1
RECURSIVE CountArgs(_, _)
CountArgs(cnt, args) ==
    IF args = <<>> THEN cnt ELSE CountArgs(Increment(cnt, Head(args)), Tail(args))

\* for data in pos + neg + fac: ...; c = [head_cnt, body_cnt]
RECURSIVE CountAll(_, _)
CountAll(c, data) ==
    IF data = <<>> THEN c
    ELSE CountAll([head_cnt |-> Increment(c.head_cnt, Head(data).head),
                   body_cnt |-> CountArgs(c.body_cnt, Head(data).args)],
                  Tail(data))

\* x put into a list already sorted by ascending count, after its equals
RECURSIVE InsertAscending(_, _, _)
InsertAscending(srt, x, cnt) ==
    IF srt = <<>> THEN <<x>>
    ELSE IF cnt[Head(srt)] <= cnt[x]
         THEN <<Head(srt)>> \o InsertAscending(Tail(srt), x, cnt)
         ELSE <<x>> \o srt

\* sorted(cnt, key=cnt.get) without reverse=True
RECURSIVE SortedAscending(_, _)
SortedAscending(order, cnt) ==
    IF order = <<>> THEN <<>>
    ELSE InsertAscending(SortedAscending(SubSeq(order, 1, Len(order) - 1), cnt),
                         order[Len(order)], cnt)

\* x put into a list already sorted by descending count, after its equals
RECURSIVE InsertDescending(_, _, _)
InsertDescending(srt, x, cnt) ==
    IF srt = <<>> THEN <<x>>
    ELSE IF cnt[Head(srt)] >= cnt[x]
         THEN <<Head(srt)>> \o InsertDescending(Tail(srt), x, cnt)
         ELSE <<x>> \o srt

\* sorted(cnt, key=cnt.get, reverse=True): a stable sort of the keys, which the
\* Counter yields in the order `order`
RECURSIVE SortedReverse(_, _)
SortedReverse(order, cnt) ==
    IF order = <<>> THEN <<>>
    ELSE InsertDescending(SortedReverse(SubSeq(order, 1, Len(order) - 1), cnt),
                          order[Len(order)], cnt)

\* for i in range(len(cnt)): clause[srt[i]] = i
IndexOf(srt) == [sym \in Range(srt) |-> (CHOOSE i \in 1..Len(srt) : srt[i] = sym) - 1]

\* invert_keys; ho and bo are the orders in which the two Counters yield their keys
invert_keys(data, ho, bo) ==
    LET c == CountAll([head_cnt |-> EmptyDict, body_cnt |-> EmptyDict], data)
    IN  [clause_head |-> IndexOf(SortedReverse(ho, c.head_cnt)),
         clause_body |-> IndexOf(SortedReverse(bo, c.body_cnt))]

HeadsOf(data) == {data[i].head : i \in 1..Len(data)}
ConstsOf(data) == UNION {Range(data[i].args) : i \in 1..Len(data)}

\* set_dictionary[key] = [set(), ..., set()]
EmptySets(n) == [i \in 1..n |-> {}]

\* for obj_index in range(len(data[1])): ... from obj_index on; an index past the
\* end of set_dictionary[key] raises IndexError
RECURSIVE UnionArgs(_, _, _, _, _)
UnionArgs(st, key, args, obj_index, body_index) ==
    IF st.status # "ok" \/ obj_index >= Len(args) THEN st
    ELSE IF obj_index >= Len(st.dict[key])
         THEN [st EXCEPT !.status = "IndexError"]
         ELSE LET obj == {ToString(body_index[args[obj_index + 1]])}
              IN  UnionArgs([st EXCEPT !.dict[key][obj_index + 1] = @ \cup obj],
                            key, args, obj_index + 1, body_index)

\* the loop body with the union moved into an else branch
CompressOneElse(st, data, head_index, body_index) ==
    LET key == ToString(head_index[data.head])
    IN  IF key \notin DOMAIN st.dict
        THEN [st EXCEPT !.dict = st.dict @@ (key :> EmptySets(Len(data.args)))]
        ELSE UnionArgs(st, key, data.args, 0, body_index)

\* the body of  for data in pos + neg + fac
CompressOne(st, data, head_index, body_index) ==
    LET key == ToString(head_index[data.head])
        st1 == IF key \notin DOMAIN st.dict
               THEN [st EXCEPT !.dict = st.dict @@ (key :> EmptySets(Len(data.args)))]
               ELSE st
    IN  UnionArgs(st1, key, data.args, 0, body_index)

RECURSIVE CompressAll(_, _, _, _)
CompressAll(st, data, head_index, body_index) ==
    IF data = <<>> \/ st.status # "ok" THEN st
    ELSE CompressAll(CompressOne(st, Head(data), head_index, body_index),
                     Tail(data), head_index, body_index)

\* compress_to_sets: [status, dict] with the two indexes it built
compress_to_sets(p, n, f, ho, bo) ==
    LET idx == invert_keys(Pooled(p, n, f), ho, bo)
        st == CompressAll([status |-> "ok", dict |-> EmptyDict], Pooled(p, n, f),
                          idx.clause_head, idx.clause_body)
    IN  [status |-> st.status, dict |-> st.dict,
         head_index |-> idx.clause_head, body_index |-> idx.clause_body]

SortKeys ==
    /\ pc = "start"
    /\ \E ho \in Orders(HeadsOf(Pooled(pos, neg, fac))),
          bo \in Orders(ConstsOf(Pooled(pos, neg, fac))) :
          LET idx == invert_keys(Pooled(pos, neg, fac), ho, bo)
          IN  /\ predicate_head_index' = idx.clause_head
              /\ predicate_body_index' = idx.clause_body
    /\ pc' = "sort_keys_done"
    /\ UNCHANGED <<pos, neg, fac, set_dictionary, parseVars, clusterVars>>

CompressToSets ==
    /\ pc = "start"
    /\ \E ho \in Orders(HeadsOf(Pooled(pos, neg, fac))),
          bo \in Orders(ConstsOf(Pooled(pos, neg, fac))) :
          LET r == compress_to_sets(pos, neg, fac, ho, bo)
          IN  /\ predicate_head_index' = r.head_index
              /\ predicate_body_index' = r.body_index
              /\ IF r.status = "ok"
                 THEN set_dictionary' = r.dict /\ pc' = "compress_done"
                 ELSE set_dictionary' = set_dictionary /\ pc' = "IndexError"
    /\ UNCHANGED <<pos, neg, fac, parseVars, clusterVars>>

\* ---- inputs: ground predicate lists ['f', ['a', 'b']]
Atoms ==
    UNION {UNION {[head : {h}, args : [1..n -> ConstSymbols]] : n \in Signature[h]} :
              h \in DOMAIN Signature}

AtomLists == UNION {[1..n -> Atoms] : n \in 0..MaxAtoms}

InitSets ==
    /\ pc = "start"
    /\ \E all \in AtomLists : \E i \in 0..Len(all) : \E j \in i..Len(all) :
          /\ pos = SubSeq(all, 1, i)
          /\ neg = SubSeq(all, i + 1, j)
          /\ fac = SubSeq(all, j + 1, Len(all))
    /\ predicate_head_index = EmptyDict
    /\ predicate_body_index = EmptyDict
    /\ set_dictionary = EmptyDict
    /\ IdleParse
    /\ IdleCluster

NextSets == SortKeys \/ CompressToSets

SpecSets == InitSets /\ [][NextSets]_vars

-----------------------------------------------------------------------------
(* Properties of PredicateLogicTypeInference *)

\* the slots of the argument, before any typing
Slots == UNION {Range(EntriesOfKey(untyped_dict, key)) : key \in DOMAIN untyped_dict}

\* an edge of the set-intersection graph: the two slots share a constant
SetsMeet(a, b) == \E x \in a.object_set : x \in b.object_set

\* the slots reachable from those of S along edges "the two sets intersect"
RECURSIVE Reach(_)
Reach(S) ==
    LET N == S \cup {t \in Slots : \E s \in S : SetsMeet(s, t)}
    IN  IF N = S THEN S ELSE Reach(N)

SameComponent(a, b) ==
    \E s \in Slots : s.key = a.key /\ \E t \in Reach({s}) : t.key = b.key

\* the type classes of a typed list, as sets of slot keys
PartitionOf(t) ==
    {{x.key : x \in {y \in Range(t) : y.type = id}} : id \in {z.type : z \in Range(t)}}

\* the run that always picks the first untyped slot as anchor
RECURSIVE RunFIFO(_, _, _)
RunFIFO(u, t, id) ==
    IF u = <<>> THEN t
    ELSE LET st == WhileBody(u, t, 1, id)
         IN  RunFIFO(st.untyped, st.typed, id + 1)

\* the anchors picked so far: the first entry typed with each id
Anchors(t) == {t[i] : i \in {j \in 1..Len(t) : \A k \in 1..(j - 1) : t[k].type # t[j].type}}

\* C1: on return two slots have the same type id exactly when they lie in the
\* same connected component of the set-intersection graph (so a chain A-B-C with
\* A and C disjoint is one class, whichever anchor is picked first).
C1_TypesAreComponents ==
    pc = "done" =>
        \A a, b \in Range(typed) : (a.type = b.type) <=> SameComponent(a, b)

\* C2: on return the partition into type classes is the one the first-in
\* first-out anchor order yields on the same dictionary, whatever order the keys
\* were met in and whatever anchors this run picked.
C2_PartitionIndependentOfOrder ==
    pc = "done" =>
        \A order \in Orders(DOMAIN untyped_dict) :
            PartitionOf(typed) =
                PartitionOf(RunFIFO(BuildUntyped(untyped_dict, order), <<>>, 0))

\* C8: two slots that have received the same type id lie in the same connected
\* component of the set-intersection graph.
C8_NeverMergesUnrelated ==
    \A a, b \in Range(typed) : a.type = b.type => SameComponent(a, b)

C8_Witness ==
    /\ pc = "done"
    /\ \E a, b \in Range(typed) : a.key # b.key /\ a.type = b.type
    /\ \E a, b \in Range(typed) : ~SameComponent(a, b) /\ a.type # b.type

\* C9: the loop terminates, next never raises StopIteration, and on return
\* every slot appears exactly once in the list with an id in 0..n-1.
C9_Terminates ==
    /\ <>(pc = "done")
    /\ [](pc # "StopIteration")
    /\ [](pc = "done" =>
            /\ Len(typed) = Cardinality(Slots)
            /\ \A s \in Slots : \E i \in 1..Len(typed) :
                  /\ typed[i].key = s.key
                  /\ typed[i].object_set = s.object_set
                  /\ \A j \in 1..Len(typed) : typed[j].key = s.key => j = i
            /\ \A i \in 1..Len(typed) :
                  typed[i].type # None /\ typed[i].type \in 0..(Cardinality(Slots) - 1))

C9_Witness ==
    /\ pc = "done"
    /\ Len(typed) >= 3
    /\ var.i = var.n

\* C10: one iteration gives the picked anchor a fresh id, moves exactly the
\* anchor and the untyped slots whose set meets the anchor's set to the typed
\* list with that id, and leaves every other entry as it was.
IterationFrame ==
    (pc = "while" /\ untyped # <<>>) =>
        \E c \in Range(untyped) :
            LET id == var.i
                hit == {u \in Range(untyped) : u = c \/ SetsMeet(c, u)}
            IN  /\ pc' = "while"
                /\ id \notin {t.type : t \in Range(typed)}
                /\ Range(untyped') = Range(untyped) \ hit
                /\ Len(untyped') = Len(untyped) - Cardinality(hit)
                /\ Range(typed') = Range(typed) \cup {[u EXCEPT !.type = id] : u \in hit}
                /\ Len(typed') = Len(typed) + Cardinality(hit)
                /\ SubSeq(typed', 1, Len(typed)) = typed

\* ... hence an untyped slot is disjoint from every anchor picked so far.
UntypedDisjointFromAnchors ==
    \A u \in Range(untyped) : \A a \in Anchors(typed) : ~SetsMeet(a, u)

C10_IterationFrame == [][IterationFrame]_vars /\ []UntypedDisjointFromAnchors

C10_Witness ==
    /\ pc = "while"
    /\ untyped # <<>>
    /\ Len(typed) >= 2
    /\ typed[1].type = typed[2].type

-----------------------------------------------------------------------------
(* Properties of sort_keys and compress_to_sets *)

AllAtoms == Pooled(pos, neg, fac)

\* how often a head symbol, and a constant, occurs in the pooled atoms
HeadCount(h) == Cardinality({i \in 1..Len(AllAtoms) : AllAtoms[i].head = h})
ConstCount(c) ==
    Cardinality({p \in UNION {{<<i, j>> : j \in 1..Len(AllAtoms[i].args)} :
                                  i \in 1..Len(AllAtoms)} :
                    AllAtoms[p[1]].args[p[2]] = c})

\* two atoms with the same head and different numbers of arguments
ArityMismatch ==
    \E i, j \in 1..Len(AllAtoms) :
        /\ AllAtoms[i].head = AllAtoms[j].head
        /\ Len(AllAtoms[i].args) # Len(AllAtoms[j].args)

\* a rank index over the symbols S with counts Count: injective, onto 0..n-1,
\* and a more frequent symbol has the smaller rank
IsRankIndex(index, S, Count(_)) ==
    /\ DOMAIN index = S
    /\ \A a, b \in S : index[a] = index[b] => a = b
    /\ {index[a] : a \in S} = 0..(Cardinality(S) - 1)
    /\ \A a, b \in S : Count(a) > Count(b) => index[a] < index[b]

\* C3: when two atoms with the same head differ in their number of arguments,
\* compress_to_sets ends in a failure and returns no set dictionary.
C3_ArityMismatchFails ==
    (pc \in {"compress_done", "IndexError"} /\ ArityMismatch) => pc = "IndexError"

\* C4: the head index and the constant index built by sort_keys are injective,
\* take exactly the values 0..n-1 and are monotone in frequency.
C4_RankIndexes ==
    pc # "start" =>
        /\ IsRankIndex(predicate_head_index, HeadsOf(AllAtoms), HeadCount)
        /\ IsRankIndex(predicate_body_index, ConstsOf(AllAtoms), ConstCount)

\* a less frequent symbol comes first in the input, for heads and for constants
C4_Witness ==
    /\ pc = "sort_keys_done"
    /\ Len(AllAtoms) >= 2
    /\ HeadCount(AllAtoms[1].head) < HeadCount(AllAtoms[Len(AllAtoms)].head)
    /\ ConstCount(AllAtoms[1].args[1]) < ConstCount(AllAtoms[Len(AllAtoms)].args[1])
    /\ predicate_head_index[AllAtoms[Len(AllAtoms)].head] = 0
    /\ predicate_body_index[AllAtoms[Len(AllAtoms)].args[1]] = 0

\* C5: when atoms with the same head agree on arity, compress_to_sets returns
\* for every head that occurs and every position the set of the codes of the
\* constants seen there, has no other key, and every set is non-empty.
C5_SetsAreObserved ==
    (pc \in {"compress_done", "IndexError"} /\ ~ArityMismatch) =>
        /\ pc = "compress_done"
        /\ DOMAIN set_dictionary =
              {ToString(predicate_head_index[h]) : h \in HeadsOf(AllAtoms)}
        /\ \A k \in 1..Len(AllAtoms) :
              LET h == AllAtoms[k].head
                  sets == set_dictionary[ToString(predicate_head_index[h])]
              IN  /\ Len(sets) = Len(AllAtoms[k].args)
                  /\ \A i \in 1..Len(sets) :
                        /\ sets[i] = {ToString(predicate_body_index[AllAtoms[m].args[i]]) :
                                        m \in {n \in 1..Len(AllAtoms) : AllAtoms[n].head = h}}
                        /\ sets[i] # {}

C5_Witness ==
    /\ pc = "compress_done"
    /\ ~ArityMismatch
    /\ Cardinality(DOMAIN set_dictionary) = 2
    /\ \E key \in DOMAIN set_dictionary :
          /\ Len(set_dictionary[key]) = 2
          /\ Cardinality(set_dictionary[key][1]) = 2

-----------------------------------------------------------------------------
(* Properties of parse *)

\* the parentheses of s are balanced
RECURSIVE Depths(_, _)
Depths(s, d) ==
    IF s = <<>> THEN {d}
    ELSE {d} \cup Depths(Tail(s), IF Head(s) = "(" THEN d + 1
                                  ELSE IF Head(s) = ")" THEN d - 1 ELSE d)

Balanced(s) ==
    /\ \A d \in Depths(s, 0) : d >= 0
    /\ Cardinality({i \in 1..Len(s) : s[i] = "("}) = Cardinality({i \in 1..Len(s) : s[i] = ")"})

TrailingPeriod(s) == s # <<>> /\ s[Len(s)] = "."

\* C6: a text without balanced parentheses or without the trailing period makes
\* parse raise the syntax exception.
C6_MalformedRejected ==
    (pc = "parsed" /\ (~Balanced(text) \/ ~TrailingPeriod(text))) =>
        parsed.status = "Exception"

\* parse returned the head and the arguments as they were written, in order, as
\* many as there are comma-separated tokens
ReturnsWritten ==
    /\ parsed.status = "ok"
    /\ parsed.head = written.head
    /\ parsed.args = written.args
    /\ parsed.rest = <<>>
    /\ Len(parsed.args) = Cardinality({i \in 1..Len(text) : text[i] = ","}) + 1

\* C7 as stated: every line of the grammar, with spaces on either side of the
\* commas, is parsed into its head and arguments.
C7_SpacesAroundCommas == pc = "parsed" => ReturnsWritten

\* C7 amended: every line of the grammar with spaces only after the commas is
\* parsed into its head and its arguments in the order written.
C7_SpacesAfterCommas ==
    (pc = "parsed" /\ \A i \in DOMAIN written.before : written.before[i] = 0) =>
        ReturnsWritten

C7_Witness ==
    /\ pc = "parsed"
    /\ Len(written.args) >= 2
    /\ written.args[1] # written.args[2]
    /\ \A i \in DOMAIN written.before : written.before[i] = 0
    /\ \E i \in DOMAIN written.after : written.after[i] > 0
    /\ parsed.status = "ok"

=============================================================================
